---- MODULE Spec2Model ----
(***************************************************************************)
(* A model of the reentrant locks of retlock:                              *)
(*   ReTLockImpl          (retlock.hpp)          variant "split"           *)
(*   ReTLockSameLineImpl  (retlock_sameline.hpp) variant "sameline"        *)
(*   ReTLockNoOpt         (retlock_no_opt.hpp)   variant "noopt"           *)
(*   ReTLockQueueImpl     (retlock_queue.hpp)    variant "queue"           *)
(* One lock instance is shared by NThreads threads.  Every action is one   *)
(* access to shared memory together with the thread-local computation that *)
(* follows it.  Atomics are sequentially consistent.                       *)
(***************************************************************************)
EXTENDS Integers, Naturals, FiniteSets, Sequences, TLC

\* Bounds of the model.
NThreads == 3
MaxDepth == 2
NLive == 2

Threads == 1..NThreads

\* Program constants.
LOCKED == 1
UNLOCKED == 0
nullptr == 0
FirstThreadId == 1

VARIABLES
  variant,               \* which lock class the instance has
  Sleep,                 \* the Sleep template argument of the spin variants
  lock_,                 \* the atomic packed state of the spin variants
  counter_,              \* split-line: the recursion counter member
  counter_max_,          \* split-line: the counter_max_ member
  thread_id_allocator_,  \* the static id allocator of the lock class
  thread_id,             \* per thread: the thread_local thread_id, 0 before its initialisation
  cache,                 \* per thread: getLocalLockCache()
  tail_,                 \* queue: the atomic tail pointer
  tail2_,                \* queue: the tail pointer of a second instance of the class
  node,                  \* queue: per thread, the thread_local QNode
  current,               \* per thread: the local variable current
  next,                  \* queue: per thread, the local variable next of unlock()
  enqueued,              \* queue: history of the threads linked in and still inside lock()
  pc,                    \* per thread: the statement it is about to execute
  op,                    \* per thread: the member function it is inside
  held,                  \* per thread: successful acquisitions minus unlock() calls
  ret,                   \* per thread: the result of its last finished call
  aborted                \* "none", or why the process stopped

lockVars == <<lock_, counter_, counter_max_, thread_id_allocator_, thread_id, cache>>
queueVars == <<tail_, tail2_, node, next, enqueued>>
ctlVars == <<pc, op, held, ret, aborted>>
vars == <<variant, Sleep, lock_, counter_, counter_max_, thread_id_allocator_, thread_id,
          cache, tail_, tail2_, node, current, next, enqueued, pc, op, held, ret, aborted>>

SpinVariants == {"split", "sameline", "noopt"}
SameLineVariants == {"sameline", "noopt"}

\* Container() of ReTLockImpl and SameCacheLineContainer() / Container() of the same-line classes.
Container(o, c, r) == [owner_tid |-> o, lockbits |-> c, recursive_count_metric |-> r]
SameCacheLineContainer(o, c) == [owner_tid |-> o, counter |-> c]
\* QNode()
QNode == [next_ |-> nullptr, lock_ |-> UNLOCKED, waiting_ |-> FALSE, counter_ |-> 0]

InitialLock(v) ==
  IF v = "split" THEN Container(0, 0, 0)
  ELSE IF v \in SameLineVariants THEN SameCacheLineContainer(0, 0)
  ELSE nullptr

InitVariant(v, s) ==
  /\ variant = v
  /\ Sleep = s
  /\ lock_ = InitialLock(v)
  /\ counter_ = 0
  /\ counter_max_ = 0
  /\ thread_id_allocator_ = FirstThreadId
  /\ thread_id = [t \in Threads |-> 0]
  /\ cache = [t \in Threads |-> InitialLock(v)]
  /\ tail_ = nullptr
  /\ tail2_ = nullptr
  /\ node = [t \in Threads |-> QNode]
  /\ current = [t \in Threads |-> InitialLock(v)]
  /\ next = [t \in Threads |-> nullptr]
  /\ enqueued = <<>>
  /\ pc = [t \in Threads |-> "idle"]
  /\ op = [t \in Threads |-> "none"]
  /\ held = [t \in Threads |-> 0]
  /\ ret = [t \in Threads |-> "none"]
  /\ aborted = "none"

\* The instantiations: Adaptive is ReTLock, Exponential the default template argument.
\* NoSleep and Yield differ from Exponential only in how long lock() waits between attempts.
InitSplit == \E s \in {"Adaptive", "Exponential"} : InitVariant("split", s)
InitSameLine == \/ \E s \in {"Adaptive", "Exponential"} : InitVariant("sameline", s)
                \/ InitVariant("noopt", "None")
InitQueue == InitVariant("queue", "None")
Init == InitSplit \/ InitSameLine \/ InitQueue

----------------------------------------------------------------------------
(* Callers: the threads of the tests and of the benchmark worker.          *)

\* The first statement of lock() / try_lock() and of unlock() in each class.
EntryPc(o) ==
  IF variant = "queue"
    THEN (IF o = "unlock" THEN "q_unlock" ELSE "q_enter")
    ELSE (IF o = "unlock" THEN "u_load" ELSE "load")

CallLock(t) ==
  /\ aborted = "none" /\ pc[t] = "idle" /\ held[t] < MaxDepth
  /\ pc' = [pc EXCEPT ![t] = EntryPc("lock")]
  /\ op' = [op EXCEPT ![t] = "lock"]
  /\ ret' = [ret EXCEPT ![t] = "none"]
  /\ UNCHANGED <<variant, Sleep, lockVars, queueVars, current, held, aborted>>

CallTryLock(t) ==
  /\ aborted = "none" /\ pc[t] = "idle" /\ held[t] < MaxDepth
  /\ pc' = [pc EXCEPT ![t] = EntryPc("try_lock")]
  /\ op' = [op EXCEPT ![t] = "try_lock"]
  /\ ret' = [ret EXCEPT ![t] = "none"]
  /\ UNCHANGED <<variant, Sleep, lockVars, queueVars, current, held, aborted>>

\* A contract-abiding thread calls unlock() once per successful acquisition.
CallUnlock(t) ==
  /\ aborted = "none" /\ pc[t] = "idle" /\ held[t] > 0
  /\ pc' = [pc EXCEPT ![t] = EntryPc("unlock")]
  /\ op' = [op EXCEPT ![t] = "unlock"]
  /\ ret' = [ret EXCEPT ![t] = "none"]
  /\ held' = [held EXCEPT ![t] = @ - 1]
  /\ UNCHANGED <<variant, Sleep, lockVars, queueVars, current, aborted>>

\* A thread that holds nothing calls unlock(): on a free lock, on a lock another
\* thread holds, or once more than it locked.
CallUnlockNotOwner(t) ==
  /\ aborted = "none" /\ pc[t] = "idle" /\ held[t] = 0
  /\ pc' = [pc EXCEPT ![t] = EntryPc("unlock")]
  /\ op' = [op EXCEPT ![t] = "unlock_not_owner"]
  /\ ret' = [ret EXCEPT ![t] = "none"]
  /\ UNCHANGED <<variant, Sleep, lockVars, queueVars, current, held, aborted>>

\* The calls that execute unlock().
UnlockOps == {"unlock", "unlock_not_owner"}

\* Where control goes after a step: a label of the same function, a return, or the
\* end of the process (a failed assertion, a corrupted stack); cur is the value the step leaves in the local current, which
\* ends with the call.  A false return inside lock() of a spin variant is the next
\* iteration of its for loop; the waiting between attempts changes no state.
Continue(t, target, cur) ==
  CASE target = "ret_true" ->
         /\ pc' = [pc EXCEPT ![t] = "idle"]
         /\ op' = [op EXCEPT ![t] = "none"]
         /\ held' = [held EXCEPT ![t] = @ + 1]
         /\ ret' = [ret EXCEPT ![t] = "true"]
         /\ current' = [current EXCEPT ![t] = InitialLock(variant)]
         /\ aborted' = aborted
    [] target = "ret_false" ->
         IF op[t] = "lock" /\ variant \in SpinVariants
           THEN /\ pc' = [pc EXCEPT ![t] = "load"]
                /\ current' = [current EXCEPT ![t] = InitialLock(variant)]
                /\ UNCHANGED <<op, held, ret, aborted>>
           ELSE /\ pc' = [pc EXCEPT ![t] = "idle"]
                /\ op' = [op EXCEPT ![t] = "none"]
                /\ ret' = [ret EXCEPT ![t] = "false"]
                /\ current' = [current EXCEPT ![t] = InitialLock(variant)]
                /\ UNCHANGED <<held, aborted>>
    [] target = "ret_void" ->
         /\ pc' = [pc EXCEPT ![t] = "idle"]
         /\ op' = [op EXCEPT ![t] = "none"]
         /\ ret' = [ret EXCEPT ![t] = "void"]
         /\ current' = [current EXCEPT ![t] = InitialLock(variant)]
         /\ UNCHANGED <<held, aborted>>
    [] target \in {"assert", "stack"} ->
         /\ aborted' = target
         /\ current' = [current EXCEPT ![t] = cur]
         /\ UNCHANGED <<pc, op, held, ret>>
    [] OTHER ->
         /\ pc' = [pc EXCEPT ![t] = target]
         /\ current' = [current EXCEPT ![t] = cur]
         /\ UNCHANGED <<op, held, ret, aborted>>

----------------------------------------------------------------------------
(* ReTLockImpl, retlock.hpp                                                *)

\* A try_lock() that does not test lockbits before the exchange.
SplitBranchNoLockbits(c, id) ==
  IF c.owner_tid = id THEN "reenter" ELSE "cas"

\* A try_lock() whose test of lockbits is inverted.
SplitBranchInverted(c, id) ==
  IF c.owner_tid = id THEN "reenter"
  ELSE IF c.lockbits = UNLOCKED THEN "ret_false"
  ELSE "cas"

\* try_lock() after the load, once the caller's id is known (lines 62-73).
SplitBranch(c, id) ==
  IF c.owner_tid = id THEN "reenter"
  ELSE IF c.lockbits = LOCKED THEN "ret_false"
  ELSE IF c.owner_tid # 0 THEN "assert"
  ELSE "cas"

\* auto current = lock_.load(); cache = current (Adaptive).
SplitLoad(t) ==
  /\ aborted = "none" /\ variant = "split" /\ pc[t] = "load"
  /\ cache' = IF Sleep = "Adaptive" THEN [cache EXCEPT ![t] = lock_] ELSE cache
  /\ Continue(t, IF thread_id[t] = 0 THEN "tid" ELSE SplitBranch(lock_, thread_id[t]), lock_)
  /\ UNCHANGED <<variant, Sleep, lock_, counter_, counter_max_, thread_id_allocator_,
                 thread_id, queueVars>>

\* unlock() after the load, once the caller's id is known: assert(isAlreadyLocked(current)).
UnlockBranch(c, id, owned) == IF c.owner_tid = id THEN owned ELSE "assert"

\* A getThreadId() that reads the allocator without adding to it.
SplitGetThreadIdNoAdd(t) ==
  /\ aborted = "none" /\ variant = "split" /\ pc[t] = "tid"
  /\ thread_id' = [thread_id EXCEPT ![t] = thread_id_allocator_]
  /\ Continue(t, IF op[t] \in UnlockOps
                   THEN UnlockBranch(current[t], thread_id_allocator_, "u_dec")
                   ELSE SplitBranch(current[t], thread_id_allocator_), current[t])
  /\ UNCHANGED <<variant, Sleep, lock_, counter_, counter_max_, thread_id_allocator_, cache,
                 queueVars>>

\* getThreadId(), first call of the thread: thread_id = thread_id_allocator_.fetch_add(1).
\* At most NThreads ids are issued, so the 32-bit allocator never wraps here.
SplitGetThreadId(t) ==
  /\ aborted = "none" /\ variant = "split" /\ pc[t] = "tid"
  /\ thread_id' = [thread_id EXCEPT ![t] = thread_id_allocator_]
  /\ thread_id_allocator_' = thread_id_allocator_ + 1
  /\ Continue(t, IF op[t] \in UnlockOps
                   THEN UnlockBranch(current[t], thread_id_allocator_, "u_dec")
                   ELSE SplitBranch(current[t], thread_id_allocator_), current[t])
  /\ UNCHANGED <<variant, Sleep, lock_, counter_, counter_max_, cache, queueVars>>

Max(a, b) == IF a < b THEN b ELSE a

\* A reentry path that forgets counter_++.
SplitReenterNoCount(t) ==
  /\ aborted = "none" /\ variant = "split" /\ pc[t] = "reenter"
  /\ Continue(t, "ret_true", current[t])
  /\ UNCHANGED <<variant, Sleep, lockVars, queueVars>>

\* The reentry path: assert(0 < counter_); counter_++; counter_max_ (Adaptive); return true.
SplitReenter(t) ==
  /\ aborted = "none" /\ variant = "split" /\ pc[t] = "reenter"
  /\ IF 0 < counter_
       THEN /\ counter_' = counter_ + 1
            /\ counter_max_' = IF Sleep = "Adaptive" THEN Max(counter_max_, counter_ + 1)
                                                     ELSE counter_max_
            /\ Continue(t, "ret_true", current[t])
       ELSE /\ Continue(t, "assert", current[t])
            /\ UNCHANGED <<counter_, counter_max_>>
  /\ UNCHANGED <<variant, Sleep, lock_, thread_id_allocator_, thread_id, cache, queueVars>>

\* An exchange that stores desired without comparing the word with current.
SplitCasBlind(t) ==
  /\ aborted = "none" /\ variant = "split" /\ pc[t] = "cas"
  /\ lock_' = Container(thread_id[t], LOCKED, current[t].recursive_count_metric)
  /\ Continue(t, "acquired", current[t])
  /\ UNCHANGED <<variant, Sleep, counter_, counter_max_, thread_id_allocator_, thread_id,
                 cache, queueVars>>

\* lock_.compare_exchange_weak(current, desired) succeeding.
SplitCasSuccess(t) ==
  /\ aborted = "none" /\ variant = "split" /\ pc[t] = "cas"
  /\ lock_ = current[t]
  /\ lock_' = Container(thread_id[t], LOCKED, current[t].recursive_count_metric)
  /\ Continue(t, "acquired", current[t])
  /\ UNCHANGED <<variant, Sleep, counter_, counter_max_, thread_id_allocator_, thread_id,
                 cache, queueVars>>

\* An exchange that writes desired and still reports failure.
SplitCasFailWrites(t) ==
  /\ aborted = "none" /\ variant = "split" /\ pc[t] = "cas"
  /\ lock_' = Container(thread_id[t], LOCKED, current[t].recursive_count_metric)
  /\ Continue(t, "ret_false", lock_)
  /\ UNCHANGED <<variant, Sleep, counter_, counter_max_, thread_id_allocator_, thread_id,
                 cache, queueVars>>

\* lock_.compare_exchange_weak(current, desired) failing: the value differs, or the
\* weak form fails spuriously.  current receives the value read; try_lock returns false.
SplitCasFail(t) ==
  /\ aborted = "none" /\ variant = "split" /\ pc[t] = "cas"
  /\ Continue(t, "ret_false", lock_)
  /\ UNCHANGED <<variant, Sleep, lockVars, queueVars>>

\* A successful exchange after which counter_++ is forgotten.
SplitAcquiredNoCount(t) ==
  /\ aborted = "none" /\ variant = "split" /\ pc[t] = "acquired"
  /\ Continue(t, IF counter_ = 0 THEN "ret_true" ELSE "assert", current[t])
  /\ UNCHANGED <<variant, Sleep, lockVars, queueVars>>

\* After the successful exchange: assert(counter_ == 0); counter_++; return true.
SplitAcquired(t) ==
  /\ aborted = "none" /\ variant = "split" /\ pc[t] = "acquired"
  /\ IF counter_ = 0
       THEN /\ counter_' = counter_ + 1
            /\ Continue(t, "ret_true", current[t])
       ELSE /\ Continue(t, "assert", current[t])
            /\ UNCHANGED counter_
  /\ UNCHANGED <<variant, Sleep, lock_, counter_max_, thread_id_allocator_, thread_id, cache,
                 queueVars>>

\* An unlock() without the ownership assertion.
SplitUnlockLoadUnchecked(t) ==
  /\ aborted = "none" /\ variant = "split" /\ pc[t] = "u_load"
  /\ Continue(t, "u_dec", lock_)
  /\ UNCHANGED <<variant, Sleep, lockVars, queueVars>>

\* unlock(): auto current = lock_.load(); assert(isAlreadyLocked(current)).
SplitUnlockLoad(t) ==
  /\ aborted = "none" /\ variant = "split" /\ pc[t] = "u_load"
  /\ Continue(t, IF thread_id[t] = 0 THEN "tid" ELSE UnlockBranch(lock_, thread_id[t], "u_dec"),
              lock_)
  /\ UNCHANGED <<variant, Sleep, lockVars, queueVars>>

\* unlock(): assert(0 < counter_); counter_--; if (0 < counter_) return.
SplitUnlockDec(t) ==
  /\ aborted = "none" /\ variant = "split" /\ pc[t] = "u_dec"
  /\ IF 0 < counter_
       THEN /\ counter_' = counter_ - 1
            /\ Continue(t, IF 0 < counter_ - 1 THEN "ret_void" ELSE "u_store", current[t])
       ELSE /\ Continue(t, "assert", current[t])
            /\ UNCHANGED counter_
  /\ UNCHANGED <<variant, Sleep, lock_, counter_max_, thread_id_allocator_, thread_id, cache,
                 queueVars>>

\* A final release that clears lockbits and leaves the owner's id in the word.
SplitUnlockStoreKeepsOwner(t) ==
  /\ aborted = "none" /\ variant = "split" /\ pc[t] = "u_store"
  /\ lock_' = Container(thread_id[t], UNLOCKED, 0)
  /\ Continue(t, "ret_void", current[t])
  /\ UNCHANGED <<variant, Sleep, counter_, counter_max_, thread_id_allocator_, thread_id,
                 cache, queueVars>>

\* unlock(): lock_.store(Container{0, UNLOCKED, 0}).
SplitUnlockStore(t) ==
  /\ aborted = "none" /\ variant = "split" /\ pc[t] = "u_store"
  /\ lock_' = Container(0, UNLOCKED, 0)
  /\ Continue(t, "ret_void", current[t])
  /\ UNCHANGED <<variant, Sleep, counter_, counter_max_, thread_id_allocator_, thread_id,
                 cache, queueVars>>

SplitStep(t) ==
  \/ SplitLoad(t) \/ SplitGetThreadId(t) \/ SplitReenter(t) \/ SplitCasSuccess(t)
  \/ SplitCasFail(t) \/ SplitAcquired(t)
  \/ SplitUnlockLoad(t) \/ SplitUnlockDec(t) \/ SplitUnlockStore(t)

Call(t) == CallLock(t) \/ CallTryLock(t) \/ CallUnlock(t)

NextSplit == \E t \in Threads : Call(t) \/ SplitStep(t)
SpecSplit == InitSplit /\ [][NextSplit]_vars

----------------------------------------------------------------------------
(* ReTLockSameLineImpl, retlock_sameline.hpp, and ReTLockNoOpt,            *)
(* retlock_no_opt.hpp: the same statements on the same packed word; NoOpt  *)
(* has no thread-local cache (Sleep = "None").                             *)

\* A try_lock() that does not test the counter before the exchange.
SameLineBranchNoCounter(c, id) ==
  IF c.owner_tid = id THEN "reenter" ELSE "cas"

\* try_lock() after the load, once the caller's id is known (lines 70-82).
SameLineBranch(c, id) ==
  IF c.owner_tid = id THEN "reenter"
  ELSE IF 0 < c.counter THEN "ret_false"
  ELSE IF c.counter # UNLOCKED \/ c.owner_tid # 0 THEN "assert"
  ELSE "cas"

\* auto current = lock_.load(); cache = current (Adaptive).
SameLineLoad(t) ==
  /\ aborted = "none" /\ variant \in SameLineVariants /\ pc[t] = "load"
  /\ cache' = IF Sleep = "Adaptive" THEN [cache EXCEPT ![t] = lock_] ELSE cache
  /\ Continue(t, IF thread_id[t] = 0 THEN "tid" ELSE SameLineBranch(lock_, thread_id[t]), lock_)
  /\ UNCHANGED <<variant, Sleep, lock_, counter_, counter_max_, thread_id_allocator_,
                 thread_id, queueVars>>

\* getThreadId(), first call of the thread.
SameLineGetThreadId(t) ==
  /\ aborted = "none" /\ variant \in SameLineVariants /\ pc[t] = "tid"
  /\ thread_id' = [thread_id EXCEPT ![t] = thread_id_allocator_]
  /\ thread_id_allocator_' = thread_id_allocator_ + 1
  /\ Continue(t, IF op[t] \in UnlockOps
                   THEN UnlockBranch(current[t], thread_id_allocator_, "u_store")
                   ELSE SameLineBranch(current[t], thread_id_allocator_), current[t])
  /\ UNCHANGED <<variant, Sleep, lock_, counter_, counter_max_, cache, queueVars>>

\* The reentry path: desired = current; desired.counter++; lock_.store(desired); return true.
SameLineReenter(t) ==
  /\ aborted = "none" /\ variant \in SameLineVariants /\ pc[t] = "reenter"
  /\ lock_' = SameCacheLineContainer(current[t].owner_tid, current[t].counter + 1)
  /\ Continue(t, "ret_true", current[t])
  /\ UNCHANGED <<variant, Sleep, counter_, counter_max_, thread_id_allocator_, thread_id,
                 cache, queueVars>>

\* An exchange that stores desired without comparing the word with current.
SameLineCasBlind(t) ==
  /\ aborted = "none" /\ variant \in SameLineVariants /\ pc[t] = "cas"
  /\ lock_' = SameCacheLineContainer(thread_id[t], 1)
  /\ Continue(t, "ret_true", current[t])
  /\ UNCHANGED <<variant, Sleep, counter_, counter_max_, thread_id_allocator_, thread_id,
                 cache, queueVars>>

\* lock_.compare_exchange_weak(current, desired) succeeding; return true.
SameLineCasSuccess(t) ==
  /\ aborted = "none" /\ variant \in SameLineVariants /\ pc[t] = "cas"
  /\ lock_ = current[t]
  /\ lock_' = SameCacheLineContainer(thread_id[t], 1)
  /\ Continue(t, "ret_true", current[t])
  /\ UNCHANGED <<variant, Sleep, counter_, counter_max_, thread_id_allocator_, thread_id,
                 cache, queueVars>>

\* lock_.compare_exchange_weak(current, desired) failing (a different value, or
\* spuriously); return false.
SameLineCasFail(t) ==
  /\ aborted = "none" /\ variant \in SameLineVariants /\ pc[t] = "cas"
  /\ Continue(t, "ret_false", lock_)
  /\ UNCHANGED <<variant, Sleep, lockVars, queueVars>>

\* unlock(): auto current = lock_.load(); assert(isAlreadyLocked(current)).
SameLineUnlockLoad(t) ==
  /\ aborted = "none" /\ variant \in SameLineVariants /\ pc[t] = "u_load"
  /\ Continue(t, IF thread_id[t] = 0 THEN "tid" ELSE UnlockBranch(lock_, thread_id[t], "u_store"),
              lock_)
  /\ UNCHANGED <<variant, Sleep, lockVars, queueVars>>

\* An unlock() that does not clear owner_tid when the counter reaches 0.
SameLineUnlockStoreKeepsOwner(t) ==
  /\ aborted = "none" /\ variant \in SameLineVariants /\ pc[t] = "u_store"
  /\ lock_' = SameCacheLineContainer(current[t].owner_tid, current[t].counter - 1)
  /\ Continue(t, "ret_void", current[t])
  /\ UNCHANGED <<variant, Sleep, counter_, counter_max_, thread_id_allocator_, thread_id,
                 cache, queueVars>>

\* unlock(): desired.counter--; if (desired.counter == 0) desired.owner_tid = 0;
\* lock_.store(desired).
SameLineUnlockStore(t) ==
  /\ aborted = "none" /\ variant \in SameLineVariants /\ pc[t] = "u_store"
  /\ lock_' = SameCacheLineContainer(
                IF current[t].counter - 1 = 0 THEN 0 ELSE current[t].owner_tid,
                current[t].counter - 1)
  /\ Continue(t, "ret_void", current[t])
  /\ UNCHANGED <<variant, Sleep, counter_, counter_max_, thread_id_allocator_, thread_id,
                 cache, queueVars>>

SameLineStep(t) ==
  \/ SameLineLoad(t) \/ SameLineGetThreadId(t) \/ SameLineReenter(t)
  \/ SameLineCasSuccess(t) \/ SameLineCasFail(t)
  \/ SameLineUnlockLoad(t) \/ SameLineUnlockStore(t)

NextSameLine == \E t \in Threads : Call(t) \/ SameLineStep(t)
SpecSameLine == InitSameLine /\ [][NextSameLine]_vars

\* The spin variants together, with contract-abiding callers and with callers that
\* also call unlock() without holding.
SpinStep(t) == SplitStep(t) \/ SameLineStep(t)
InitSpin == InitSplit \/ InitSameLine
NextSpin == \E t \in Threads : Call(t) \/ SpinStep(t)
SpecSpin == InitSpin /\ [][NextSpin]_vars

NextSpinMisuse == \E t \in Threads : Call(t) \/ CallUnlockNotOwner(t) \/ SpinStep(t)
SpecSpinMisuse == InitSpin /\ [][NextSpinMisuse]_vars

----------------------------------------------------------------------------
(* ReTLockQueueImpl, retlock_queue.hpp.  A QNode pointer is the number of  *)
(* the thread whose thread_local node it addresses; wait is op = "lock".   *)

\* A try_lock() without the reentry test of lines 50-53.
QueueEnterNoReentry(t) ==
  /\ aborted = "none" /\ variant = "queue" /\ pc[t] = "q_enter"
  /\ node' = [node EXCEPT ![t].lock_ = LOCKED, ![t].counter_ = 1, ![t].next_ = nullptr]
  /\ Continue(t, "q_init_waiting", current[t])
  /\ UNCHANGED <<variant, Sleep, lockVars, tail_, tail2_, next, enqueued>>

\* try_lock(wait), lines 48-57: the reentry path, or the node's initialisation up
\* to my_node->next_.store(nullptr).
QueueEnter(t) ==
  /\ aborted = "none" /\ variant = "queue" /\ pc[t] = "q_enter"
  /\ IF node[t].lock_ = LOCKED
       THEN /\ node' = [node EXCEPT ![t].counter_ = @ + 1]
            /\ Continue(t, "ret_true", current[t])
       ELSE /\ node' = [node EXCEPT ![t].lock_ = LOCKED, ![t].counter_ = 1,
                                    ![t].next_ = nullptr]
            /\ Continue(t, "q_init_waiting", current[t])
  /\ UNCHANGED <<variant, Sleep, lockVars, tail_, tail2_, next, enqueued>>

\* An initialisation that stores false into waiting_.
QueueInitNotWaiting(t) ==
  /\ aborted = "none" /\ variant = "queue" /\ pc[t] = "q_init_waiting"
  /\ node' = [node EXCEPT ![t].waiting_ = FALSE]
  /\ Continue(t, "q_load_tail", current[t])
  /\ UNCHANGED <<variant, Sleep, lockVars, tail_, tail2_, next, enqueued>>

\* my_node->waiting_.store(true).
QueueInitWaiting(t) ==
  /\ aborted = "none" /\ variant = "queue" /\ pc[t] = "q_init_waiting"
  /\ node' = [node EXCEPT ![t].waiting_ = TRUE]
  /\ Continue(t, "q_load_tail", current[t])
  /\ UNCHANGED <<variant, Sleep, lockVars, tail_, tail2_, next, enqueued>>

\* The calls made on the second instance, and the calls with wait = true.
L2Ops == {"lock_L2", "try_lock_L2"}
WaitOps == {"lock", "lock_L2"}

\* The member tail_ of the instance thread t's call is made on.
TailOf(t) == IF op[t] \in L2Ops THEN tail2_ ELSE tail_

\* lock: auto* current = tail_.load(), and the branches on it (lines 61-79).
QueueLoadTail(t) ==
  /\ aborted = "none" /\ variant = "queue" /\ pc[t] = "q_load_tail"
  /\ Continue(t, IF TailOf(t) = nullptr THEN "q_cas_tail"
                 ELSE IF op[t] \notin WaitOps THEN "q_new"
                 ELSE "q_walk", TailOf(t))
  /\ UNCHANGED <<variant, Sleep, lockVars, queueVars>>

\* An exchange on tail_ after whose failure try_lock() also jumps back to lock:.
QueueCasTailRetries(t) ==
  /\ aborted = "none" /\ variant = "queue" /\ pc[t] = "q_cas_tail"
  /\ IF tail_ = current[t]
       THEN /\ tail_' = t
            /\ Continue(t, "ret_true", current[t])
       ELSE /\ tail_' = tail_
            /\ Continue(t, "q_load_tail", tail_)
  /\ UNCHANGED <<variant, Sleep, lockVars, tail2_, node, next, enqueued>>

\* tail_.compare_exchange_strong(current, my_node), lines 65-74.
QueueCasTail(t) ==
  /\ aborted = "none" /\ variant = "queue" /\ pc[t] = "q_cas_tail"
  /\ IF TailOf(t) = current[t]
       THEN /\ tail_' = IF op[t] \in L2Ops THEN tail_ ELSE t
            /\ tail2_' = IF op[t] \in L2Ops THEN t ELSE tail2_
            /\ Continue(t, "ret_true", current[t])
       ELSE /\ UNCHANGED <<tail_, tail2_>>
            /\ Continue(t, IF op[t] \notin WaitOps THEN "q_new" ELSE "q_load_tail", TailOf(t))
  /\ UNCHANGED <<variant, Sleep, lockVars, node, next, enqueued>>

\* my_node = new (&my_node) QNode(); return false.  The QNode is constructed over
\* the local pointer my_node, not over the thread's node: the node keeps its
\* fields, and the write past the pointer's 8 bytes of stack is undefined behaviour,
\* after which the call returns or the process dies.
QueuePlacementNew(t) ==
  /\ aborted = "none" /\ variant = "queue" /\ pc[t] = "q_new"
  /\ \E outcome \in {"ret_false", "stack"} : Continue(t, outcome, current[t])
  /\ UNCHANGED <<variant, Sleep, lockVars, queueVars>>

\* The enqueue loop's walk: next = current->next_.load(); while (next != nullptr) ...
QueueWalk(t) ==
  /\ aborted = "none" /\ variant = "queue" /\ pc[t] = "q_walk"
  /\ IF node[current[t]].next_ # nullptr
       THEN Continue(t, "q_walk", node[current[t]].next_)
       ELSE Continue(t, "q_link", current[t])
  /\ UNCHANGED <<variant, Sleep, lockVars, queueVars>>

\* queued = current->next_.compare_exchange_weak(next, my_node), succeeding.  The
\* history enqueued records the order in which these exchanges take effect, and
\* whether some thread held the lock at that moment.
QueueLinkSuccess(t) ==
  /\ aborted = "none" /\ variant = "queue" /\ pc[t] = "q_link"
  /\ node[current[t]].next_ = nullptr
  /\ node' = [node EXCEPT ![current[t]].next_ = t]
  /\ enqueued' = Append(enqueued, [thread |-> t, whileHeld |-> \E u \in Threads : held[u] > 0])
  /\ Continue(t, "q_spin", current[t])
  /\ UNCHANGED <<variant, Sleep, lockVars, tail_, tail2_, next>>

\* The exchange failing (another node was linked, or spuriously): the while loop
\* loads current->next_ again.
QueueLinkFail(t) ==
  /\ aborted = "none" /\ variant = "queue" /\ pc[t] = "q_link"
  /\ Continue(t, "q_walk", current[t])
  /\ UNCHANGED <<variant, Sleep, lockVars, queueVars>>

\* The history without thread t's entry.
Without(q, t) == SelectSeq(q, LAMBDA e : e.thread # t)

\* A wait loop that leaves without reading waiting_.
QueueSpinNoWait(t) ==
  /\ aborted = "none" /\ variant = "queue" /\ pc[t] = "q_spin"
  /\ enqueued' = Without(enqueued, t)
  /\ Continue(t, "ret_true", current[t])
  /\ UNCHANGED <<variant, Sleep, lockVars, tail_, tail2_, node, next>>

\* The wait loop leaving: my_node->waiting_.load() is false, return true.  An
\* iteration that reads true changes nothing.
QueueSpin(t) ==
  /\ aborted = "none" /\ variant = "queue" /\ pc[t] = "q_spin"
  /\ node[t].waiting_ = FALSE
  /\ enqueued' = Without(enqueued, t)
  /\ Continue(t, "ret_true", current[t])
  /\ UNCHANGED <<variant, Sleep, lockVars, tail_, tail2_, node, next>>

\* unlock(), lines 34-40: the assertions, counter_--, lock_.store(UNLOCKED) and
\* next = my_node->next_.load().
QueueUnlock(t) ==
  /\ aborted = "none" /\ variant = "queue" /\ pc[t] = "q_unlock"
  /\ IF node[t].lock_ # LOCKED \/ ~(node[t].counter_ > 0)
       THEN /\ Continue(t, "assert", current[t])
            /\ UNCHANGED <<node, next>>
       ELSE IF node[t].counter_ - 1 > 0
         THEN /\ node' = [node EXCEPT ![t].counter_ = @ - 1]
              /\ Continue(t, "ret_void", current[t])
              /\ UNCHANGED next
         ELSE /\ node' = [node EXCEPT ![t].counter_ = @ - 1, ![t].lock_ = UNLOCKED]
              /\ IF node[t].next_ = nullptr
                   THEN /\ Continue(t, "ret_void", current[t])
                        /\ UNCHANGED next
                   ELSE /\ Continue(t, "q_handoff", current[t])
                        /\ next' = [next EXCEPT ![t] = node[t].next_]
  /\ UNCHANGED <<variant, Sleep, lockVars, tail_, tail2_, enqueued>>

\* next->waiting_.store(false).
QueueHandoff(t) ==
  /\ aborted = "none" /\ variant = "queue" /\ pc[t] = "q_handoff"
  /\ node' = [node EXCEPT ![next[t]].waiting_ = FALSE]
  /\ next' = [next EXCEPT ![t] = nullptr]
  /\ Continue(t, "ret_void", current[t])
  /\ UNCHANGED <<variant, Sleep, lockVars, tail_, tail2_, enqueued>>

QueueStep(t) ==
  \/ QueueEnter(t) \/ QueueInitWaiting(t) \/ QueueLoadTail(t) \/ QueueCasTail(t)
  \/ QueuePlacementNew(t) \/ QueueWalk(t) \/ QueueLinkSuccess(t) \/ QueueLinkFail(t)
  \/ QueueSpin(t) \/ QueueUnlock(t) \/ QueueHandoff(t)

NextQueue == \E t \in Threads : Call(t) \/ QueueStep(t)
SpecQueue == InitQueue /\ [][NextQueue]_vars

\* Threads that use only the blocking lock() and unlock(), as the benchmark worker
\* does: with wait = true the statements of lines 67-70 and 74-77 are never reached.
QueueLockOnlyStep(t) ==
  \/ QueueEnter(t) \/ QueueInitWaiting(t) \/ QueueLoadTail(t) \/ QueueCasTail(t)
  \/ QueueWalk(t) \/ QueueLinkSuccess(t) \/ QueueLinkFail(t)
  \/ QueueSpin(t) \/ QueueUnlock(t) \/ QueueHandoff(t)

NextQueueLockOnly == \E t \in Threads : CallLock(t) \/ CallUnlock(t) \/ QueueLockOnlyStep(t)
SpecQueueLockOnly == InitQueue /\ [][NextQueueLockOnly]_vars

\* Two instances L1 and L2 of the queue lock class.  A thread takes L1 with lock()
\* and, while it holds L1, calls lock() or try_lock() on L2; getMyQNode() returns
\* the same thread_local node for both instances.
CallLockL2(t) ==
  /\ aborted = "none" /\ variant = "queue" /\ pc[t] = "idle"
  /\ held[t] > 0 /\ held[t] < MaxDepth
  /\ pc' = [pc EXCEPT ![t] = EntryPc("lock")]
  /\ op' = [op EXCEPT ![t] = "lock_L2"]
  /\ ret' = [ret EXCEPT ![t] = "none"]
  /\ UNCHANGED <<variant, Sleep, lockVars, queueVars, current, held, aborted>>

CallTryLockL2(t) ==
  /\ aborted = "none" /\ variant = "queue" /\ pc[t] = "idle"
  /\ held[t] > 0 /\ held[t] < MaxDepth
  /\ pc' = [pc EXCEPT ![t] = EntryPc("try_lock")]
  /\ op' = [op EXCEPT ![t] = "try_lock_L2"]
  /\ ret' = [ret EXCEPT ![t] = "none"]
  /\ UNCHANGED <<variant, Sleep, lockVars, queueVars, current, held, aborted>>

NextTwoQueues ==
  \E t \in Threads :
    \/ CallLock(t) /\ held[t] = 0
    \/ CallLockL2(t) \/ CallTryLockL2(t) \/ CallUnlock(t)
    \/ QueueLockOnlyStep(t)
SpecTwoQueues == InitQueue /\ [][NextTwoQueues]_vars

----------------------------------------------------------------------------
Next == \E t \in Threads : Call(t) \/ SplitStep(t) \/ SameLineStep(t) \/ QueueStep(t)
Spec == Init /\ [][Next]_vars

----------------------------------------------------------------------------
(* Properties.                                                             *)

\* The threads that have returned from lock() / try_lock() == true more often than
\* they have called unlock().
Holders == {t \in Threads : held[t] > 0}

\* C1: split-line lock: in every reachable state at most one thread has more
\* successful acquisitions than releases, and the packed word names that thread
\* as owner.
C1_MutualExclusionSplit ==
  variant = "split" =>
    /\ Cardinality(Holders) <= 1
    /\ \A t \in Holders : lock_.owner_tid = thread_id[t] /\ lock_.lockbits = LOCKED

\* A thread holds the split-line lock at depth 2 while another thread, which read
\* the free state earlier, is about to try its exchange.
C1_Witness ==
  /\ variant = "split"
  /\ \E t, u \in Threads : t # u /\ held[t] = 2 /\ pc[u] = "cas" /\ lock_.owner_tid = thread_id[t]

\* C2: same-line locks (ReTLockSameLineImpl, ReTLockNoOpt): in every reachable state
\* at most one thread holds the lock, and while a thread holds it and is outside a
\* call the packed word names that thread as owner.
C2_MutualExclusionSameLine ==
  variant \in SameLineVariants =>
    /\ Cardinality(Holders) <= 1
    /\ \A t \in Holders : pc[t] = "idle" => lock_.owner_tid = thread_id[t]

\* The owner has stored counter 2 by a plain store while another thread, which read
\* the free word earlier, is about to try its exchange.
C2_Witness ==
  /\ variant = "noopt"
  /\ \E t, u \in Threads :
       /\ t # u /\ held[t] = 2 /\ pc[t] = "idle" /\ lock_.counter = 2
       /\ pc[u] = "cas"

\* C3: queue lock, threads using only lock() and unlock(): in every reachable state
\* at most one thread has returned from lock() more often than it called unlock().
C3_MutualExclusionQueue == variant = "queue" => Cardinality(Holders) <= 1

\* A thread that was handed the lock by its predecessor holds it while another
\* thread waits in the queue behind it.
C3_Witness ==
  /\ variant = "queue"
  /\ \E t, u \in Threads :
       /\ t # u /\ held[t] > 0 /\ tail_ # t /\ pc[u] = "q_spin" /\ node[t].next_ = u

\* The recursion depth the lock itself records for its holder.
Depth ==
  IF variant = "split" THEN counter_
  ELSE IF variant \in SameLineVariants THEN lock_.counter
  ELSE 0

\* Thread t's try_lock() returns in this step.
TryLockReturns(t) == op[t] = "try_lock" /\ pc[t] # "idle" /\ pc'[t] = "idle"

\* Every other thread is outside any call and holds nothing.
OthersQuiet(t) == \A u \in Threads \ {t} : pc[u] = "idle" /\ held[u] = 0

\* C4: every variant: a try_lock() of a thread that holds nothing, returning while
\* another thread holds the lock, returns false (also when the same thread's
\* earlier try_lock() already returned false).
C4_TryLockFailsWhileHeld ==
  [][\A t \in Threads :
       (TryLockReturns(t) /\ held[t] = 0 /\ \E u \in Threads \ {t} : held[u] > 0)
         => ret'[t] = "false"]_vars

\* Another thread's last finished call was the unlock() that released the lock.
ReleasedByOther(t) ==
  \E u \in Threads \ {t} : pc[u] = "idle" /\ held[u] = 0 /\ ret[u] = "void"

\* C5: spin variants: after another thread's final unlock(), a try_lock() of a
\* thread that holds nothing, which read the packed word after that release and
\* returns while every other thread is outside any call, returns true and leaves
\* the caller as owner at depth 1.
C5_TryLockSucceedsWhenFree ==
  [][\A t \in Threads :
       (/\ variant \in SpinVariants /\ TryLockReturns(t) /\ held[t] = 0
        /\ OthersQuiet(t) /\ ReleasedByOther(t)
        /\ pc[t] \in {"tid", "cas"} => current[t] = lock_)
         => /\ ret'[t] = "true"
            /\ held'[t] = 1
            /\ lock_'.owner_tid = thread_id'[t]
            /\ Depth' = 1]_vars

\* C6: queue variant: after another thread's final unlock(), a try_lock() of a
\* thread that holds nothing, returning while every other thread is outside any
\* call (so that nobody waits), returns true and the caller holds the lock.
C6_QueueTryLockSucceedsWhenFree ==
  [][\A t \in Threads :
       (/\ variant = "queue" /\ TryLockReturns(t) /\ held[t] = 0
        /\ OthersQuiet(t) /\ ReleasedByOther(t))
         => /\ ret'[t] = "true"
            /\ held'[t] = 1]_vars

\* C7: every variant: a lock() or try_lock() called by a thread that holds the lock
\* takes only the reentry path (it is never at the exchange, in the queue or in a
\* retry), returns true, raises the caller's depth by exactly one, and leaves the
\* owner and every other thread's holding unchanged.
C7_ReentrantSafety ==
  [][\A t \in Threads :
       (held[t] > 0 /\ op[t] \in {"lock", "try_lock"} /\ pc'[t] # pc[t])
         => /\ aborted' = "none"
            /\ \/ pc[t] = "load" /\ pc'[t] = "reenter"
               \/ /\ pc[t] \in {"reenter", "q_enter"}
                  /\ pc'[t] = "idle"
                  /\ ret'[t] = "true"
                  /\ held' = [held EXCEPT ![t] = @ + 1]
                  /\ IF variant = "queue"
                       THEN /\ node'[t].counter_ = node[t].counter_ + 1
                            /\ node'[t].lock_ = LOCKED
                            /\ tail_' = tail_
                       ELSE /\ Depth' = Depth + 1
                            /\ lock_.owner_tid = thread_id[t]
                            /\ lock_'.owner_tid = thread_id[t]]_vars

\* A thread has reentered (depth 2, last call returned true) while another thread
\* is inside lock().
C7_Witness ==
  \E t, u \in Threads :
    /\ t # u /\ held[t] = 2 /\ pc[t] = "idle" /\ ret[t] = "true"
    /\ op[u] = "lock"
    /\ IF variant = "queue" THEN node[t].counter_ = 2 ELSE Depth = 2

----------------------------------------------------------------------------
(* Fair specifications for the progress properties.  A thread inside a     *)
(* member function keeps executing (weak fairness of its steps).  A weak   *)
(* compare-exchange does not fail spuriously for ever (strong fairness of  *)
(* its success).  A holder finishes every critical section: at each depth  *)
(* its unlock() call eventually happens.                                   *)

HolderUnlocks(t) == \A d \in 1..MaxDepth : SF_vars(CallUnlock(t) /\ held[t] = d)

FairSpecQueue ==
  /\ InitQueue /\ [][NextQueueLockOnly]_vars
  /\ \A t \in Threads :
       WF_vars(QueueLockOnlyStep(t)) /\ SF_vars(QueueLinkSuccess(t)) /\ HolderUnlocks(t)

\* C8: queue lock, threads using lock() and unlock(), fair scheduling, every holder
\* releasing: every call to lock() eventually returns.
C8_QueueLockReturns == \A t \in Threads : (op[t] = "lock") ~> (op[t] # "lock")

\* The position of thread t's entry in the history.
Position(t) == CHOOSE i \in 1..Len(enqueued) : enqueued[i].thread = t

\* C10: queue lock, FIFO: a thread B whose lock() was linked in while the lock was
\* held does not return from lock() while a thread A, linked in earlier and also
\* while the lock was held, is still inside lock().
C10_QueueFIFO ==
  [][\A b \in Threads :
       (variant = "queue" /\ pc[b] = "q_spin" /\ pc'[b] = "idle"
        /\ enqueued[Position(b)].whileHeld)
         => \A j \in 1..(Position(b) - 1) : ~enqueued[j].whileHeld]_vars

\* The progress of the spin variants is checked with NLive of the threads running.
LiveThreads == 1..NLive

NextSpinLive == \E t \in LiveThreads : Call(t) \/ SpinStep(t)

FairSpecSpin ==
  /\ (InitSplit \/ InitSameLine) /\ [][NextSpinLive]_vars
  /\ \A t \in LiveThreads :
       /\ WF_vars(SpinStep(t))
       /\ SF_vars(SplitCasSuccess(t)) /\ SF_vars(SameLineCasSuccess(t))
       /\ HolderUnlocks(t)

\* The packed word of a spin variant is in its free state.
LockFree == variant \in SpinVariants /\ lock_.owner_tid = 0

\* C9: spin variants, fair scheduling: whenever the lock is free and a thread is
\* inside lock(), some thread eventually holds the lock; this covers a thread
\* that locks again after it has fully unlocked.
C9_SpinProgress ==
  (LockFree /\ \E t \in Threads : op[t] = "lock") ~> (\E t \in Threads : held[t] > 0)

\* The lock is free again after a release, and a thread whose earlier attempt
\* inside lock() failed is about to try its exchange.
C9_Witness ==
  /\ LockFree
  /\ \E t, u \in Threads :
       /\ t # u /\ op[t] = "lock" /\ pc[t] = "cas"
       /\ pc[u] = "idle" /\ held[u] = 0 /\ ret[u] = "void"

----------------------------------------------------------------------------
\* C11: spin variants, round trip: whenever a thread is outside any call and every
\* other thread is idle and holds nothing, the packed state is the free state if
\* the thread has unlocked as often as it locked, and otherwise still names the
\* thread as owner at the depth that remains.
C11_RoundTrip ==
  variant \in SpinVariants =>
    \A t \in Threads :
      (pc[t] = "idle" /\ OthersQuiet(t)) =>
        IF held[t] = 0
          THEN lock_ = InitialLock(variant) /\ counter_ = 0
          ELSE /\ lock_.owner_tid = thread_id[t]
               /\ thread_id[t] # 0
               /\ Depth = held[t]
               /\ variant = "split" => lock_.lockbits = LOCKED

\* One thread alone has locked MaxDepth times (counter_max_ records the depth) and
\* unlocked as often: the word is free again.
C11_Witness ==
  /\ variant = "split" /\ Sleep = "Adaptive"
  /\ \E t \in Threads :
       /\ counter_max_ = MaxDepth /\ held[t] = 0 /\ pc[t] = "idle" /\ ret[t] = "void"
       /\ thread_id[t] # 0
       /\ \A u \in Threads \ {t} : thread_id[u] = 0 /\ pc[u] = "idle"
       /\ lock_ = Container(0, UNLOCKED, 0)

\* Thread t takes a step of one of the lock's member functions.
Acts(t) == SplitStep(t) \/ SameLineStep(t) \/ QueueStep(t)

\* C12: every variant: a step of a try_lock() call that writes the packed word or
\* the tail pointer belongs to a call that returns true (the split-line exchange is
\* followed by the return of true); a try_lock() that returns false has written
\* neither.
C12_FailedTryLockWritesNothing ==
  [][\A t \in Threads :
       (op[t] = "try_lock" /\ Acts(t))
         => /\ (lock_' # lock_ \/ tail_' # tail_) => (ret'[t] = "true" \/ pc'[t] = "acquired")
            /\ pc[t] = "acquired" => (ret'[t] = "true" /\ aborted' = "none")
            /\ ret'[t] = "false" => (lock_' = lock_ /\ tail_' = tail_)]_vars

\* A try_lock() has returned false while another thread holds the lock.
C12_Witness ==
  \E t, u \in Threads :
    /\ t # u /\ pc[t] = "idle" /\ ret[t] = "false" /\ held[t] = 0 /\ held[u] > 0
    /\ variant \in SpinVariants => lock_.owner_tid = thread_id[u]
    /\ variant = "queue" => tail_ = u

\* The number of statements of try_lock() that remain, at most, from each position.
Rank(p) ==
  CASE p = "idle" -> 0
    [] p \in {"acquired", "q_new"} -> 1
    [] p \in {"reenter", "cas", "q_cas_tail"} -> 2
    [] p \in {"tid", "q_load_tail"} -> 3
    [] p \in {"load", "q_init_waiting"} -> 4
    [] p = "q_enter" -> 5
    [] OTHER -> 6

\* C13: every variant: a thread inside try_lock() can always take its next step,
\* whatever the other threads do, and each of its steps brings it strictly closer
\* to the return (or ends the process): the call finishes within five own steps.
C13_TryLockNonBlocking ==
  /\ [](\A t \in Threads : (op[t] = "try_lock" /\ aborted = "none") =>
                               (Rank(pc[t]) <= 5 /\ ENABLED Acts(t)))
  /\ [][\A t \in Threads :
          (op[t] = "try_lock" /\ Acts(t))
            => (aborted' # "none" \/ Rank(pc'[t]) < Rank(pc[t]))]_vars

\* A try_lock() found the queue occupied and is about to return while another
\* thread waits in the queue.
C13_Witness ==
  /\ variant = "queue"
  /\ \E t, u \in Threads :
       /\ t # u /\ op[t] = "try_lock" /\ pc[t] = "q_new"
       /\ op[u] = "lock" /\ pc[u] = "q_spin"

\* C14: spin variants, assertions enabled: unlock() called by a thread that does not
\* hold the lock never gets past the ownership assertion: its steps write neither
\* the packed word nor the recursion counter, and it ends in the failed assertion
\* (after the thread's id was allocated, if this was its first call).
C14_NotOwnerUnlockAsserts ==
  /\ [](\A t \in Threads : op[t] = "unlock_not_owner" => pc[t] \in {"u_load", "tid"})
  /\ [][\A t \in Threads :
          (op[t] = "unlock_not_owner" /\ SpinStep(t))
            => /\ lock_' = lock_ /\ counter_' = counter_ /\ counter_max_' = counter_max_
               /\ \/ aborted' = "assert"
                  \/ pc[t] = "u_load" /\ thread_id[t] = 0 /\ pc'[t] = "tid"]_vars

\* The ownership assertion has failed in an unlock() called while another thread
\* holds the lock at depth 2.
C14_Witness ==
  /\ aborted = "assert"
  /\ \E t, u \in Threads :
       /\ t # u /\ op[t] = "unlock_not_owner" /\ held[u] = 2
       /\ lock_.owner_tid = thread_id[u] /\ Depth = 2

\* C15: every variant: what the lock records as thread t's holding (the owner id
\* of the packed word with the recursion counter; the LOCKED flag and counter of
\* t's queue node) is written by t's own steps only, and stops naming t only in
\* the store of t's own unlock() that leaves depth 0; a non-final unlock() and
\* the steps of other threads leave the owner unchanged.
C15_NoSpuriousTransfer ==
  [][\A t \in Threads :
       /\ (/\ variant \in SpinVariants /\ thread_id[t] # 0
           /\ lock_.owner_tid = thread_id[t] /\ lock_' # lock_)
            => /\ Acts(t)
               /\ \/ lock_'.owner_tid = thread_id[t]
                  \/ /\ op[t] = "unlock" /\ held[t] = 0
                     /\ lock_'.owner_tid = 0 /\ Depth' = 0
       /\ (/\ variant = "split" /\ thread_id[t] # 0
           /\ lock_.owner_tid = thread_id[t] /\ counter_' # counter_)
            => Acts(t)
       /\ (/\ variant = "queue"
           /\ (node'[t].lock_ # node[t].lock_ \/ node'[t].counter_ # node[t].counter_))
            => /\ Acts(t)
               /\ (node[t].lock_ = LOCKED /\ node'[t].lock_ # LOCKED)
                    => (op[t] = "unlock" /\ held[t] = 0 /\ node'[t].counter_ = 0)]_vars

\* A thread that locked twice and unlocked once still owns a spin lock while another
\* thread, which read the free word before, is about to try its exchange.
C15_Witness ==
  /\ variant \in SpinVariants
  /\ \E t, u \in Threads :
       /\ t # u /\ held[t] = 1 /\ pc[t] = "idle" /\ ret[t] = "void"
       /\ lock_.owner_tid = thread_id[t] /\ Depth = 1
       /\ pc[u] = "cas" /\ current[u].owner_tid = 0

\* The threads whose thread_local thread_id has been initialised.
Identified == {t \in Threads : thread_id[t] # 0}

\* C16: spin variants: the ids in use are exactly FirstThreadId .. allocator - 1,
\* one per thread that has been through its first lock operation; no two threads
\* share an id, no id is 0, a thread past the id test of any call has its id, and
\* an id once assigned never changes.
C16_ThreadIdentity ==
  /\ [](variant \in SpinVariants =>
         /\ thread_id_allocator_ = FirstThreadId + Cardinality(Identified)
         /\ {thread_id[t] : t \in Identified} = FirstThreadId..(thread_id_allocator_ - 1)
         /\ \A t, u \in Identified : t # u => thread_id[t] # thread_id[u]
         /\ \A t \in Threads :
              (ret[t] # "none" \/ held[t] > 0 \/ pc[t] \notin {"idle", "load", "u_load", "tid"})
                => t \in Identified)
  /\ [][\A t \in Threads :
          /\ t \in Identified => thread_id'[t] = thread_id[t]
          /\ thread_id'[t] # thread_id[t]
               => (pc[t] = "tid" /\ thread_id'[t] = thread_id_allocator_
                   /\ thread_id'[t] >= FirstThreadId)]_vars

\* Every thread has its id, and the first thread did not make the first call.
C16_Witness ==
  /\ variant \in SpinVariants
  /\ Identified = Threads
  /\ thread_id[1] = NThreads

\* C17: split-line lock: the store of the final release writes a packed state whose
\* recursive_count_metric is the metric of the word it replaces plus counter_max_ / 2.
C17_MetricUpdatedOnRelease ==
  [][\A t \in Threads :
       (variant = "split" /\ pc[t] = "u_store" /\ SplitStep(t))
         => lock_'.recursive_count_metric
              = lock_.recursive_count_metric + (counter_max_ \div 2)]_vars

\* C18: queue lock, threads using lock() and unlock(): tail_ is null whenever every
\* thread is outside any call and holds nothing (so n lock() and n unlock() by one
\* thread return tail_ to null), and while tail_ is null no thread holds the lock
\* or waits in the queue.
C18_TailNullWhenFree ==
  variant = "queue" =>
    /\ (\A t \in Threads : pc[t] = "idle" /\ held[t] = 0) => tail_ = nullptr
    /\ tail_ = nullptr => \A t \in Threads : held[t] = 0 /\ pc[t] # "q_spin"

\* C19: queue lock: when try_lock() returns false the caller's node is in the
\* not-holding state: lock_ UNLOCKED and counter_ 0.
C19_FailedTryLockResetsNode ==
  [][\A t \in Threads :
       (variant = "queue" /\ TryLockReturns(t) /\ ret'[t] = "false")
         => (node'[t].lock_ = UNLOCKED /\ node'[t].counter_ = 0)]_vars

\* The packed word w is in its free state.
IsFree(w) == IF variant = "split" THEN w.lockbits = UNLOCKED ELSE w.counter = 0

\* C20: spin variants, contract-abiding callers: the packed word has owner_tid 0
\* exactly when it is free, no assertion fails, and a thread about to try its
\* exchange has read a word that is free and names no owner.
C20_PackedStateInvariant ==
  variant \in SpinVariants =>
    /\ lock_.owner_tid = 0 <=> IsFree(lock_)
    /\ aborted # "assert"
    /\ \A t \in Threads :
         pc[t] = "cas" => (current[t].owner_tid = 0 /\ IsFree(current[t]))

\* After a release by one thread, a thread that read the free word is about to try
\* its exchange while a third thread has already taken the split-line lock.
C20_Witness ==
  /\ variant = "split"
  /\ \E t, u, w \in Threads :
       /\ t # u /\ t # w /\ u # w
       /\ pc[t] = "cas" /\ current[t] = Container(0, UNLOCKED, 0)
       /\ held[u] = 1 /\ lock_ = Container(thread_id[u], LOCKED, 0)
       /\ held[w] = 0 /\ pc[w] = "idle" /\ ret[w] = "void"

\* The positions at which a thread is about to read or write the member counter_.
CounterAccess == {"reenter", "acquired", "u_dec"}

\* C21: split-line lock, contract-abiding threads: counter_ is 0 whenever the packed
\* word is free; while the holder is outside any call counter_ equals its number of
\* outstanding acquisitions; only the thread the word names is ever about to
\* access counter_ (so the plain accesses do not race); and no assertion fails.
C21_SplitCounter ==
  variant = "split" =>
    /\ aborted # "assert"
    /\ lock_.lockbits = UNLOCKED => counter_ = 0
    /\ \A t \in Threads :
         /\ (pc[t] = "idle" /\ held[t] > 0) => counter_ = held[t]
         /\ pc[t] \in CounterAccess
              => (lock_.owner_tid = thread_id[t] /\ lock_.lockbits = LOCKED)
         /\ pc[t] = "acquired" => counter_ = 0
         /\ pc[t] \in {"reenter", "u_dec"} => 0 < counter_

\* A thread has won the exchange and is about to run assert(counter_ == 0), after
\* an earlier holder nested to depth MaxDepth and released.
C21_Witness ==
  /\ variant = "split" /\ Sleep = "Adaptive" /\ counter_max_ = MaxDepth
  /\ \E t, u \in Threads :
       /\ t # u /\ pc[t] = "acquired" /\ counter_ = 0
       /\ held[u] = 0 /\ pc[u] = "idle" /\ ret[u] = "void"

\* C22: same-line locks: the packed word changes only by the acquiring exchange
\* from {0,0} to {tid,1}, by the owner's reentry to counter+1 and by the owner's
\* release to counter-1 with owner_tid cleared exactly when the counter reaches
\* 0, each computed from the word as it is at the store (no update is lost); while
\* the holder is outside any call the counter is its number of outstanding
\* acquisitions.
C22_SameLineCounter ==
  /\ [](variant \in SameLineVariants =>
         /\ \A t \in Threads :
              (pc[t] = "idle" /\ held[t] > 0)
                => lock_ = SameCacheLineContainer(thread_id[t], held[t])
         /\ (\A t \in Threads : pc[t] = "idle" /\ held[t] = 0)
              => lock_ = SameCacheLineContainer(0, 0))
  /\ [][(variant \in SameLineVariants /\ lock_' # lock_) =>
          \E t \in Threads :
            /\ SameLineStep(t)
            /\ \/ /\ op[t] \in {"lock", "try_lock"}
                  /\ lock_ = SameCacheLineContainer(0, 0)
                  /\ lock_' = SameCacheLineContainer(thread_id[t], 1)
               \/ /\ op[t] \in {"lock", "try_lock"}
                  /\ lock_.owner_tid = thread_id[t]
                  /\ lock_' = SameCacheLineContainer(thread_id[t], lock_.counter + 1)
               \/ /\ op[t] = "unlock"
                  /\ lock_.owner_tid = thread_id[t]
                  /\ lock_' = SameCacheLineContainer(
                                IF lock_.counter = 1 THEN 0 ELSE thread_id[t],
                                lock_.counter - 1)]_vars

\* The owner of an Adaptive same-line lock has released once from depth 2 while
\* another thread, which read the free word before, is about to try its exchange.
C22_Witness ==
  /\ variant = "sameline" /\ Sleep = "Adaptive"
  /\ \E t, u \in Threads :
       /\ t # u /\ held[t] = 1 /\ pc[t] = "idle" /\ ret[t] = "void"
       /\ lock_ = SameCacheLineContainer(thread_id[t], 1)
       /\ pc[u] = "cas" /\ current[u] = SameCacheLineContainer(0, 0)

C24_QueueAcyclic ==
  variant = "queue" =>
    LET W[k \in 0..NThreads] ==
          IF k = 0 THEN tail_
          ELSE IF W[k - 1] = nullptr THEN nullptr
          ELSE node[W[k - 1]].next_
    IN  /\ W[NThreads] = nullptr
        /\ \A t \in Threads : node[t].next_ # t

\* C25: two instances of the queue lock: a lock() or try_lock() on L2 by a thread
\* that holds L1 consists of the reentry step alone: it returns true, adds one to
\* the counter of the thread's single node and leaves both tails unchanged, so
\* L2's tail stays null and the thread is not recorded as holder of L2.
C25_SecondInstanceReenters ==
  /\ [](variant = "queue" => tail2_ = nullptr)
  /\ [][\A t \in Threads :
          (op[t] \in L2Ops /\ QueueLockOnlyStep(t))
            => /\ pc[t] = "q_enter" /\ pc'[t] = "idle" /\ ret'[t] = "true"
               /\ held'[t] = held[t] + 1
               /\ node'[t].counter_ = node[t].counter_ + 1
               /\ node'[t].lock_ = LOCKED
               /\ tail_' = tail_ /\ tail2_' = tail2_]_vars

\* A thread that was handed L1 has since returned true from a call on L2 (depth 2
\* on its single node) while L2's tail is still null and another thread waits for L1.
C25_Witness ==
  /\ variant = "queue" /\ tail2_ = nullptr
  /\ \E t, u \in Threads :
       /\ t # u /\ held[t] = 2 /\ pc[t] = "idle" /\ ret[t] = "true"
       /\ node[t].counter_ = 2 /\ tail_ # t
       /\ pc[u] = "q_spin" /\ node[t].next_ = u

====
